---- MODULE Spec2Model ----
(***************************************************************************)
(* The command-line front end of WannaCRI (src/wannacri/wannacri.py): the  *)
(* key_normalize option callback, find_usm, dir_or_parent_dir and the four *)
(* commands extract, create, probe and encrypt, with the calls they make   *)
(* into the USM core (Usm.open, Usm(...), demux, stream, generate_keys)    *)
(* and into ffprobe recorded in a history.                                 *)
(***************************************************************************)
EXTENDS Integers, Sequences, FiniteSets, TLC

VARIABLES
    cmd,        \* the command being run
    args,       \* its command-line arguments and the files they name
    pc,         \* position of the main thread
    key,        \* value of the key parameter after the option callback
    failure,    \* kind of the exception that ended the command, "" if none
    exit,       \* exit status of the process, -1 while it runs
    usmfiles,   \* result of find_usm
    idx,        \* loop index of the main thread (1-based)
    tasks,      \* extract: the submitted tasks, one per future
    yielded,    \* extract: futures as_completed has handed out
    progress,   \* extract: number of progress.advance calls
    usms,       \* the Usm containers constructed so far
    calls,      \* history of calls into the core and into ffprobe
    printed,    \* extract: files for which "ERROR" was printed
    logs,       \* probe: logged exceptions
    outdir,     \* encrypt: the output directory
    written     \* create, encrypt: paths opened for writing

vars == << cmd, args, pc, key, failure, exit, usmfiles, idx, tasks, yielded,
           progress, usms, calls, printed, logs, outdir, written >>

(***************************************************************************)
(* Bounds of the model.                                                    *)
(***************************************************************************)
MaxKeyLen == 3
MaxFiles == 2
MaxWorkers == 2

(***************************************************************************)
(* Key strings are sequences of characters.                                *)
(***************************************************************************)
KeyChars == {"0", "1", "9", "a", "x", "-"}

DecDigits == {"0", "1", "9"}

HexDigits == {"0", "1", "9", "a"}

DigitVal(c) == CASE c = "0" -> 0 [] c = "1" -> 1 [] c = "9" -> 9 [] c = "a" -> 10

DigitsOf(base) == IF base = 16 THEN HexDigits ELSE DecDigits

AllIn(ds, S) == \A i \in 1..Len(ds) : ds[i] \in S

RECURSIVE DigitsValue(_, _)
DigitsValue(ds, base) ==
    IF ds = << >> THEN 0
    ELSE DigitsValue(SubSeq(ds, 1, Len(ds) - 1), base) * base + DigitVal(ds[Len(ds)])

RECURSIVE StringsUpTo(_)
StringsUpTo(n) ==
    IF n = 0 THEN { << >> }
    ELSE LET shorter == StringsUpTo(n - 1)
         IN  shorter \cup { Append(s, c) : s \in shorter, c \in KeyChars }

\* Values of a Python expression: an int, None, or a raised exception.
IntVal(v) == [tag |-> "int", val |-> v]

NoneVal == [tag |-> "None", val |-> 0]

Raised(kind) == [tag |-> kind, val |-> 0]

\* A command-line option: absent, or given with a string.
NoOpt == [given |-> FALSE, str |-> << >>]

Opt(s) == [given |-> TRUE, str |-> s]

(***************************************************************************)
(* Python's int(str, base) for base 0 and base 16: an optional sign, then  *)
(* for base 0 the base is read off the prefix (0x: 16, otherwise 10, where *)
(* a leading zero is allowed only if the value is zero), for base 16 an    *)
(* optional 0x prefix; at least one digit of the base, and nothing else.   *)
(***************************************************************************)
PyInt(s, base) ==
    LET neg == Len(s) >= 1 /\ s[1] = "-"
        body == IF neg THEN Tail(s) ELSE s
        isHexPfx == Len(body) >= 2 /\ body[1] = "0" /\ body[2] = "x"
        b == IF base = 0 THEN (IF isHexPfx THEN 16 ELSE 10) ELSE base
        leadingZero == base = 0 /\ ~isHexPfx /\ Len(body) >= 1 /\ body[1] = "0"
        digits == IF b = 16 /\ isHexPfx THEN SubSeq(body, 3, Len(body)) ELSE body
        valid == Len(digits) >= 1 /\ AllIn(digits, DigitsOf(b))
        mag == DigitsValue(digits, b)
    IN  IF ~valid THEN Raised("ValueError")
        ELSE IF leadingZero /\ mag # 0 THEN Raised("ValueError")
        ELSE IntVal(IF neg THEN 0 - mag ELSE mag)

\* A variant of key_normalize that reads every key as hexadecimal.
key_normalize_hex_only(key_str) ==
    IF ~key_str.given THEN Raised("TypeError")
    ELSE PyInt(<<"0", "x">> \o key_str.str, 16)

\* key_normalize, the callback of the -k/--key option. The option's default is
\* None and the callback runs on it too: int(None, 0) raises TypeError, which
\* the except clause (ValueError only) does not catch.
key_normalize(key_str) ==
    IF ~key_str.given THEN Raised("TypeError")
    ELSE LET first == PyInt(key_str.str, 0)
         IN  IF first.tag # "ValueError" THEN first
             ELSE PyInt(<<"0", "x">> \o key_str.str, 16)

(***************************************************************************)
(* Paths are sequences of components. The files the arguments can name:    *)
(* the directory top/d holding USM files, the existing directory top/out.  *)
(***************************************************************************)
InputDir == <<"top", "d">>

FileNames == <<"f1.usm", "f2.usm", "f3.usm", "f4.usm">>

InputFile == Append(InputDir, FileNames[1])

OutDir == <<"top", "out">>

Parent(p) == SubSeq(p, 1, Len(p) - 1)

Name(p) == p[Len(p)]

\* pathlib.Path.is_dir on the modelled file system.
IsDir(p) == p \in { <<"top">>, InputDir, OutDir }

InputPath(a) == IF a.inputKind = "dir" THEN InputDir ELSE InputFile

\* dir_or_parent_dir: the parent of a directory, and any other path unchanged.
dir_or_parent_dir(path) ==
    IF IsDir(path) THEN Parent(path) ELSE path

\* find_usm: a file that is a USM comes back as the str it was given, a file
\* that is not raises ValueError, a directory yields the Path of each USM in it.
find_usm(a) ==
    IF a.inputKind = "file"
    THEN IF a.isUsm
         THEN [raised |-> "", files |-> << [path |-> InputFile, repr |-> "str"] >>]
         ELSE [raised |-> "ValueError", files |-> << >>]
    ELSE [raised |-> "",
          files |-> [i \in 1..a.nUsm |->
                        [path |-> Append(InputDir, FileNames[i]), repr |-> "Path"]]]

\* create names its files by directory, stem and extension.
VideoFile == [dir |-> <<"top">>, stem |-> "video", ext |-> "ivf"]

NoFile == [dir |-> << >>, stem |-> "", ext |-> ""]

\* os.path.splitext(input)[0] + ".usm"
CreateTarget(input) == [dir |-> input.dir, stem |-> input.stem, ext |-> "usm"]

\* A variant of the mode choice of create that never encrypts.
CreateModeNone(k) == "NONE"

\* create: mode = OpMode.NONE if key is None else OpMode.ENCRYPT
CreateMode(k) == IF k = NoneVal THEN "NONE" ELSE "ENCRYPT"

\* generate_keys(key): the video key and the audio key derived from one key.
generate_keys(k) == << [tag |-> "video_key", val |-> k.val],
                       [tag |-> "audio_key", val |-> k.val] >>

(***************************************************************************)
(* Outcomes of the collaborators. Usm.open and demux return or raise; the  *)
(* commands catch ValueError only. ffmpeg.probe returns or raises; probe   *)
(* catches ValueError, RuntimeError and ffmpeg.Error.                      *)
(***************************************************************************)
CoreOutcomes == {"ok", "ValueError", "Exception"}

FfprobeOutcomes == {"ok", "ValueError", "RuntimeError", "ffmpeg.Error", "OSError"}

FfprobeCaught == {"ValueError", "RuntimeError", "ffmpeg.Error"}

\* One entry of the history of calls.
Call(op, file, usm, by, res, k, mode) ==
    [op |-> op, file |-> file, usm |-> usm, by |-> by, res |-> res,
     key |-> k, mode |-> mode]

\* A container: the file it was opened from (0: constructed), the task that
\* owns it (0: the main thread), the key it was given and its installed keys.
NewUsm(file, by, k) ==
    [file |-> file, by |-> by, key |-> k, video_key |-> NoneVal, audio_key |-> NoneVal]

SampleKeys == { NoOpt, Opt(<<"1", "9">>), Opt(<<"0", "x", "a">>), Opt(<<"-", "1">>),
                Opt(<<"x">>) }

(***************************************************************************)
(* The state a command starts in: its arguments parsed, nothing run yet.   *)
(***************************************************************************)
NoArgs ==
    [keyopt |-> NoOpt, inputKind |-> "file", isUsm |-> FALSE, nUsm |-> 0,
     output |-> NoOpt, outfile |-> [given |-> FALSE, file |-> NoFile],
     workers |-> 0, codec |-> "VP9"]

\* The inputs a path argument can name: a file (a USM or not), or a directory
\* holding up to MaxFiles USM files.
Inputs ==
    { [NoArgs EXCEPT !.inputKind = "file", !.isUsm = u] : u \in BOOLEAN }
    \cup { [NoArgs EXCEPT !.inputKind = "dir", !.nUsm = n] : n \in 0..MaxFiles }

ExtractArgs ==
    { [a EXCEPT !.keyopt = k, !.workers = w] :
        a \in Inputs, k \in SampleKeys, w \in 0..MaxWorkers }

CreateArgs ==
    { [NoArgs EXCEPT !.keyopt = k, !.codec = c, !.outfile = o] :
        k \in SampleKeys, c \in {"VP9", "H264", "other"},
        o \in { [given |-> FALSE, file |-> NoFile],
                [given |-> TRUE, file |-> [dir |-> OutDir, stem |-> "movie", ext |-> "usm"]],
                [given |-> TRUE, file |-> CreateTarget(VideoFile)] } }

ProbeArgs ==
    { [a EXCEPT !.output = o] : a \in Inputs, o \in {NoOpt, Opt(OutDir)} }

EncryptArgs ==
    { [a EXCEPT !.keyopt = k, !.output = o] :
        a \in Inputs, k \in SampleKeys, o \in {NoOpt, Opt(OutDir)} }

Init ==
    /\ \/ cmd = "extract" /\ args \in ExtractArgs /\ pc = "callback"
       \/ cmd = "create" /\ args \in CreateArgs /\ pc = "callback"
       \/ cmd = "probe" /\ args \in ProbeArgs /\ pc = "find"
       \/ cmd = "encrypt" /\ args \in EncryptArgs /\ pc = "callback"
    /\ key = NoneVal
    /\ failure = ""
    /\ exit = -1
    /\ usmfiles = << >>
    /\ idx = 1
    /\ tasks = << >>
    /\ yielded = {}
    /\ progress = 0
    /\ usms = << >>
    /\ calls = << >>
    /\ printed = {}
    /\ logs = {}
    /\ outdir = << >>
    /\ written = {}

\* An exception nothing catches ends the command: typer exits with status 1.
Crash(kind) ==
    /\ pc' = "exit"
    /\ exit' = 1
    /\ failure' = kind

\* The command function returns: the process exits with status 0.
Return ==
    /\ pc' = "exit"
    /\ exit' = 0
    /\ failure' = ""

(***************************************************************************)
(* Option parsing of extract, create and encrypt: typer runs the callback  *)
(* of --key, key_normalize, on the option's value, given or not.           *)
(***************************************************************************)
KeyCallback ==
    /\ cmd \in {"extract", "create", "encrypt"}
    /\ pc = "callback"
    /\ LET k == key_normalize(args.keyopt)
       IN  IF k.tag = "int"
           THEN /\ key' = k
                /\ pc' = IF cmd = "extract" THEN "find"
                         ELSE IF cmd = "create" THEN "build" ELSE "outdir"
                /\ UNCHANGED << exit, failure >>
           ELSE /\ Crash(k.tag)
                /\ UNCHANGED key
    /\ UNCHANGED << cmd, args, usmfiles, idx, tasks, yielded, progress, usms,
                    calls, printed, logs, outdir, written >>

\* usmfiles = find_usm(input), of extract, probe and encrypt.
FindUsm ==
    /\ cmd \in {"extract", "probe", "encrypt"}
    /\ pc = "find"
    /\ LET r == find_usm(args)
       IN  IF r.raised # ""
           THEN /\ Crash(r.raised)
                /\ UNCHANGED usmfiles
           ELSE /\ usmfiles' = r.files
                /\ pc' = IF cmd = "extract" THEN "executor"
                         ELSE IF cmd = "probe" THEN "makedirs" ELSE "enc_open"
                /\ UNCHANGED << exit, failure >>
    /\ UNCHANGED << cmd, args, key, idx, tasks, yielded, progress, usms, calls,
                    printed, logs, outdir, written >>

(***************************************************************************)
(* extract. The main thread opens the progress display and the executor,   *)
(* submits process_usm once per file and advances the progress once per    *)
(* future as_completed hands out. The executor runs at most `workers`      *)
(* tasks at a time, in the order of submission.                            *)
(***************************************************************************)
ExtractExecutor ==
    /\ cmd = "extract"
    /\ pc = "executor"
    /\ IF args.workers <= 0
       THEN /\ Crash("ValueError")
            /\ UNCHANGED idx
       ELSE /\ pc' = IF Len(usmfiles) = 0 THEN "as_completed" ELSE "submit"
            /\ idx' = 1
            /\ UNCHANGED << exit, failure >>
    /\ UNCHANGED << cmd, args, key, usmfiles, tasks, yielded, progress, usms,
                    calls, printed, logs, outdir, written >>

ExtractSubmit ==
    /\ cmd = "extract"
    /\ pc = "submit"
    /\ tasks' = Append(tasks, [pc |-> "queued", usm |-> 0, exc |-> ""])
    /\ idx' = idx + 1
    /\ pc' = IF idx = Len(usmfiles) THEN "as_completed" ELSE "submit"
    /\ UNCHANGED << cmd, args, key, failure, exit, usmfiles, yielded, progress,
                    usms, calls, printed, logs, outdir, written >>

Running == { g \in 1..Len(tasks) : tasks[g].pc \in {"open", "demux"} }

\* A worker thread takes the oldest queued task.
TaskStart(f) ==
    /\ cmd = "extract"
    /\ tasks[f].pc = "queued"
    /\ \A g \in 1..(f - 1) : tasks[g].pc # "queued"
    /\ Cardinality(Running) < args.workers
    /\ tasks' = [tasks EXCEPT ![f].pc = "open"]
    /\ UNCHANGED << cmd, args, pc, key, failure, exit, usmfiles, idx, yielded,
                    progress, usms, calls, printed, logs, outdir, written >>

\* A variant of process_usm that tries a failed call again.
TaskNextRetry(stage, r) ==
    IF r = "ok" THEN (IF stage = "open" THEN "demux" ELSE "done") ELSE stage

\* process_usm: demux follows an open that returned; anything raised ends the
\* task (ValueError in its except clause, the rest in the future).
TaskNext(stage, r) ==
    IF stage = "open" /\ r = "ok" THEN "demux" ELSE "done"

\* process_usm: usm = Usm.open(usmfile, encoding=encoding, key=key)
TaskOpen(f) ==
    /\ cmd = "extract"
    /\ tasks[f].pc = "open"
    /\ \E r \in CoreOutcomes :
        LET u == IF r = "ok" THEN Len(usms) + 1 ELSE 0
        IN  /\ calls' = Append(calls, Call("open", f, u, f, r, key, ""))
            /\ usms' = IF r = "ok" THEN Append(usms, NewUsm(f, f, key)) ELSE usms
            /\ tasks' = [tasks EXCEPT ![f] =
                            [pc |-> TaskNext("open", r), usm |-> u,
                             exc |-> IF r = "Exception" THEN r ELSE ""]]
            /\ printed' = IF r = "ValueError" THEN printed \cup {f} ELSE printed
    /\ UNCHANGED << cmd, args, pc, key, failure, exit, usmfiles, idx, yielded,
                    progress, logs, outdir, written >>

\* process_usm: usm.demux(..., folder_name=usmfile.parent). A str has no
\* attribute parent: for the str find_usm returns for a single file the
\* arguments raise AttributeError and demux is not called.
TaskDemux(f) ==
    /\ cmd = "extract"
    /\ tasks[f].pc = "demux"
    /\ IF usmfiles[f].repr = "str"
       THEN /\ tasks' = [tasks EXCEPT ![f].pc = "done", ![f].exc = "AttributeError"]
            /\ UNCHANGED << calls, printed >>
       ELSE \E r \in CoreOutcomes :
            /\ calls' = Append(calls, Call("demux", f, tasks[f].usm, f, r, NoneVal, ""))
            /\ tasks' = [tasks EXCEPT ![f].pc = TaskNext("demux", r),
                                      ![f].exc = IF r = "Exception" THEN r ELSE ""]
            /\ printed' = IF r = "ValueError" THEN printed \cup {f} ELSE printed
    /\ UNCHANGED << cmd, args, pc, key, failure, exit, usmfiles, idx, yielded,
                    progress, usms, logs, outdir, written >>

\* for future in as_completed(futures): progress.advance(task)
ExtractAdvance ==
    /\ cmd = "extract"
    /\ pc = "as_completed"
    /\ \E f \in 1..Len(tasks) :
        /\ tasks[f].pc = "done"
        /\ f \notin yielded
        /\ yielded' = yielded \cup {f}
    /\ progress' = progress + 1
    /\ UNCHANGED << cmd, args, pc, key, failure, exit, usmfiles, idx, tasks,
                    usms, calls, printed, logs, outdir, written >>

\* Every future was handed out: the executor and the display close, and the
\* command returns. No future's result() is asked for.
ExtractReturn ==
    /\ cmd = "extract"
    /\ pc = "as_completed"
    /\ yielded = 1..Len(tasks)
    /\ Return
    /\ UNCHANGED << cmd, args, key, usmfiles, idx, tasks, yielded, progress,
                    usms, calls, printed, logs, outdir, written >>

(***************************************************************************)
(* create.                                                                 *)
(***************************************************************************)
\* The codec is recognised, the streams are built and the container is
\* constructed: usm = Usm(videos=[video], audios=audios, key=key)
CreateBuild ==
    /\ cmd = "create"
    /\ pc = "build"
    /\ IF args.codec \notin {"VP9", "H264"}
       THEN /\ Crash("NotImplementedError")
            /\ UNCHANGED << usms, calls >>
       ELSE /\ usms' = Append(usms, NewUsm(0, 0, key))
            /\ calls' = Append(calls, Call("Usm", 0, Len(usms) + 1, 0, "ok", key, ""))
            /\ pc' = "write"
            /\ UNCHANGED << exit, failure >>
    /\ UNCHANGED << cmd, args, key, usmfiles, idx, tasks, yielded, progress,
                    printed, logs, outdir, written >>

\* with open(filename + ".usm", "wb") as f: every packet of usm.stream(mode)
\* is written to f. The output option is not read.
CreateWrite ==
    /\ cmd = "create"
    /\ pc = "write"
    /\ written' = written \cup { CreateTarget(VideoFile) }
    /\ calls' = Append(calls, Call("stream", 0, Len(usms), 0, "ok", NoneVal,
                                   CreateMode(key)))
    /\ Return
    /\ UNCHANGED << cmd, args, key, usmfiles, idx, tasks, yielded, progress,
                    usms, printed, logs, outdir >>

(***************************************************************************)
(* probe.                                                                  *)
(***************************************************************************)
\* os.makedirs(output, exist_ok=True): the output option defaults to None,
\* which os.makedirs rejects with TypeError.
ProbeMakedirs ==
    /\ cmd = "probe"
    /\ pc = "makedirs"
    /\ IF ~args.output.given
       THEN Crash("TypeError")
       ELSE /\ pc' = "log_info"
            /\ UNCHANGED << exit, failure >>
    /\ UNCHANGED << cmd, args, key, usmfiles, idx, tasks, yielded, progress,
                    usms, calls, printed, logs, outdir, written >>

\* The head of the loop over usmfiles, up to logging.info("Info", ...), whose
\* extra holds usmfile.replace(input, ""): on a str the text replacement, on a
\* Path the one-argument rename, which raises TypeError for two arguments.
ProbeLogInfo ==
    /\ cmd = "probe"
    /\ pc = "log_info"
    /\ idx <= Len(usmfiles)
    /\ IF usmfiles[idx].repr = "Path"
       THEN Crash("TypeError")
       ELSE /\ pc' = "probe_open"
            /\ UNCHANGED << exit, failure >>
    /\ UNCHANGED << cmd, args, key, usmfiles, idx, tasks, yielded, progress,
                    usms, calls, printed, logs, outdir, written >>

\* continue, or the end of the loop body: the next file.
NextFile ==
    /\ idx' = idx + 1
    /\ pc' = "log_info"
    /\ UNCHANGED << exit, failure >>

\* usm = Usm.open(usmfile, encoding=encoding), ValueError logged
ProbeOpen ==
    /\ cmd = "probe"
    /\ pc = "probe_open"
    /\ \E r \in CoreOutcomes :
        LET u == IF r = "ok" THEN Len(usms) + 1 ELSE 0
        IN  /\ calls' = Append(calls, Call("open", idx, u, 0, r, NoneVal, ""))
            /\ usms' = IF r = "ok" THEN Append(usms, NewUsm(idx, 0, NoneVal)) ELSE usms
            /\ IF r = "ok"
               THEN /\ pc' = "probe_demux"
                    /\ UNCHANGED << idx, exit, failure, logs >>
               ELSE IF r = "ValueError"
               THEN /\ logs' = logs \cup { [file |-> idx, at |-> "open"] }
                    /\ NextFile
               ELSE /\ Crash(r)
                    /\ UNCHANGED << idx, logs >>
    /\ UNCHANGED << cmd, args, key, usmfiles, tasks, yielded, progress, printed,
                    outdir, written >>

\* videos, audios = usm.demux(path=temp_dir, ...), ValueError logged
ProbeDemux ==
    /\ cmd = "probe"
    /\ pc = "probe_demux"
    /\ \E r \in CoreOutcomes :
        /\ calls' = Append(calls, Call("demux", idx, Len(usms), 0, r, NoneVal, ""))
        /\ IF r = "ok"
           THEN /\ pc' = "probe_videos"
                /\ UNCHANGED << idx, exit, failure, logs >>
           ELSE IF r = "ValueError"
           THEN /\ logs' = logs \cup { [file |-> idx, at |-> "demux"] }
                /\ NextFile
           ELSE /\ Crash(r)
                /\ UNCHANGED << idx, logs >>
    /\ UNCHANGED << cmd, args, key, usmfiles, tasks, yielded, progress, usms,
                    printed, outdir, written >>

\* ffmpeg.probe over the videos, then over the audios, that demux returned.
\* ValueError, RuntimeError and ffmpeg.Error are logged and the loop continues;
\* anything else (OSError when no ffprobe can be started) ends the command.
ProbeFfprobe(stage, next) ==
    /\ cmd = "probe"
    /\ pc = stage
    /\ \E r \in FfprobeOutcomes :
        /\ calls' = Append(calls, Call("ffprobe", idx, Len(usms), 0, r, NoneVal, ""))
        /\ IF r = "ok"
           THEN /\ pc' = next
                /\ UNCHANGED << idx, exit, failure, logs >>
           ELSE IF r \in FfprobeCaught
           THEN /\ logs' = logs \cup { [file |-> idx, at |-> stage] }
                /\ NextFile
           ELSE /\ Crash(r)
                /\ UNCHANGED << idx, logs >>
    /\ UNCHANGED << cmd, args, key, usmfiles, tasks, yielded, progress, usms,
                    printed, outdir, written >>

ProbeVideos == ProbeFfprobe("probe_videos", "probe_audios")

ProbeAudios == ProbeFfprobe("probe_audios", "cleanup")

\* logging.info("Done probing usm file") and the emptying of temp_dir
ProbeCleanup ==
    /\ cmd = "probe"
    /\ pc = "cleanup"
    /\ NextFile
    /\ UNCHANGED << cmd, args, key, usmfiles, tasks, yielded, progress, usms,
                    calls, printed, logs, outdir, written >>

\* After the loop: shutil.rmtree(temp_dir) and the closing message.
ProbeReturn ==
    /\ cmd = "probe"
    /\ pc = "log_info"
    /\ idx > Len(usmfiles)
    /\ Return
    /\ UNCHANGED << cmd, args, key, usmfiles, idx, tasks, yielded, progress,
                    usms, calls, printed, logs, outdir, written >>

(***************************************************************************)
(* encrypt.                                                                *)
(***************************************************************************)
\* outdir = dir_or_parent_dir(input) if output is None else pathlib.Path(output)
EncryptOutdir ==
    /\ cmd = "encrypt"
    /\ pc = "outdir"
    /\ outdir' = IF ~args.output.given THEN dir_or_parent_dir(InputPath(args))
                 ELSE args.output.str
    /\ pc' = "find"
    /\ UNCHANGED << cmd, args, key, failure, exit, usmfiles, idx, tasks, yielded,
                    progress, usms, calls, printed, logs, written >>

\* usm = Usm.open(filepath); nothing is caught
EncryptOpen ==
    /\ cmd = "encrypt"
    /\ pc = "enc_open"
    /\ idx <= Len(usmfiles)
    /\ \E r \in CoreOutcomes :
        LET u == IF r = "ok" THEN Len(usms) + 1 ELSE 0
        IN  /\ calls' = Append(calls, Call("open", idx, u, 0, r, NoneVal, ""))
            /\ usms' = IF r = "ok" THEN Append(usms, NewUsm(idx, 0, NoneVal)) ELSE usms
            /\ IF r = "ok"
               THEN /\ pc' = "enc_keys"
                    /\ UNCHANGED << exit, failure >>
               ELSE Crash(r)
    /\ UNCHANGED << cmd, args, key, usmfiles, idx, tasks, yielded, progress,
                    printed, logs, outdir, written >>

\* usm.video_key, usm.audio_key = generate_keys(key)
EncryptKeys ==
    /\ cmd = "encrypt"
    /\ pc = "enc_keys"
    /\ LET u == Len(usms)
           ks == generate_keys(key)
       IN  /\ calls' = calls \o << Call("generate_keys", idx, 0, 0, "ok", key, ""),
                                   Call("set_keys", idx, u, 0, "ok", NoneVal, "") >>
           /\ usms' = [usms EXCEPT ![u].video_key = ks[1], ![u].audio_key = ks[2]]
    /\ pc' = "enc_write"
    /\ UNCHANGED << cmd, args, key, failure, exit, usmfiles, idx, tasks, yielded,
                    progress, printed, logs, outdir, written >>

\* with open(outdir.joinpath(filename), "wb") as out: every packet of
\* usm.stream(OpMode.ENCRYPT) is written to out. The open fails when outdir
\* is not a directory.
EncryptWrite ==
    /\ cmd = "encrypt"
    /\ pc = "enc_write"
    /\ IF ~IsDir(outdir)
       THEN /\ Crash("NotADirectoryError")
            /\ UNCHANGED << written, calls, idx >>
       ELSE /\ written' = written \cup { Append(outdir, Name(usmfiles[idx].path)) }
            /\ calls' = Append(calls, Call("stream", idx, Len(usms), 0, "ok",
                                           NoneVal, "ENCRYPT"))
            /\ idx' = idx + 1
            /\ pc' = "enc_open"
            /\ UNCHANGED << exit, failure >>
    /\ UNCHANGED << cmd, args, key, usmfiles, tasks, yielded, progress, usms,
                    printed, logs, outdir >>

EncryptReturn ==
    /\ cmd = "encrypt"
    /\ pc = "enc_open"
    /\ idx > Len(usmfiles)
    /\ Return
    /\ UNCHANGED << cmd, args, key, usmfiles, idx, tasks, yielded, progress,
                    usms, calls, printed, logs, outdir, written >>

Next ==
    \/ KeyCallback
    \/ FindUsm
    \/ ExtractExecutor
    \/ ExtractSubmit
    \/ \E f \in 1..Len(tasks) : TaskStart(f)
    \/ \E f \in 1..Len(tasks) : TaskOpen(f)
    \/ \E f \in 1..Len(tasks) : TaskDemux(f)
    \/ ExtractAdvance
    \/ ExtractReturn
    \/ CreateBuild
    \/ CreateWrite
    \/ ProbeMakedirs
    \/ ProbeLogInfo
    \/ ProbeOpen
    \/ ProbeDemux
    \/ ProbeVideos
    \/ ProbeAudios
    \/ ProbeCleanup
    \/ ProbeReturn
    \/ EncryptOutdir
    \/ EncryptOpen
    \/ EncryptKeys
    \/ EncryptWrite
    \/ EncryptReturn

Spec == Init /\ [][Next]_vars

\* The threads of the process are scheduled: a step that can be taken is taken.
FairSpec == Spec /\ WF_vars(Next)

(***************************************************************************)
(* key_normalize alone, on every key string up to MaxKeyLen characters.    *)
(***************************************************************************)
KeyInit ==
    /\ cmd = "key_normalize"
    /\ args \in { [NoArgs EXCEPT !.keyopt = k] :
                    k \in {NoOpt} \cup { Opt(s) : s \in StringsUpTo(MaxKeyLen) } }
    /\ pc = "callback"
    /\ key = NoneVal
    /\ failure = ""
    /\ exit = -1
    /\ usmfiles = << >>
    /\ idx = 1
    /\ tasks = << >>
    /\ yielded = {}
    /\ progress = 0
    /\ usms = << >>
    /\ calls = << >>
    /\ printed = {}
    /\ logs = {}
    /\ outdir = << >>
    /\ written = {}

KeyNormalizeCall ==
    /\ cmd = "key_normalize"
    /\ pc = "callback"
    /\ key' = key_normalize(args.keyopt)
    /\ pc' = "returned"
    /\ UNCHANGED << cmd, args, failure, exit, usmfiles, idx, tasks, yielded,
                    progress, usms, calls, printed, logs, outdir, written >>

KeyNext == KeyNormalizeCall

KeySpec == KeyInit /\ [][KeyNext]_vars

(***************************************************************************)
(* Properties.                                                             *)
(***************************************************************************)
CallsOf(op, f) == { i \in DOMAIN calls : calls[i].op = op /\ calls[i].file = f }

Succeeded(op, f) == \E i \in CallsOf(op, f) : calls[i].res = "ok"

Failed(op, f) == \E i \in CallsOf(op, f) : calls[i].res # "ok"

\* C1: extract exits with status 0 only when Usm.open and demux succeeded for
\* every file found; a failure of either gives a non-zero status.
C1_ExitZeroOnlyOnSuccess ==
    (cmd = "extract" /\ pc = "exit" /\ exit = 0)
        => \A f \in 1..Len(usmfiles) : Succeeded("open", f) /\ Succeeded("demux", f)

\* C2: with the key option omitted, extract and create get past the option
\* callback with key None, hand no key to the container, and create
\* serializes with mode NONE.
C2_OmittedKeyProceeds ==
    (cmd \in {"extract", "create"} /\ ~args.keyopt.given /\ pc # "callback")
        => /\ key = NoneVal
           /\ failure = ""
           /\ \A i \in DOMAIN calls :
                /\ calls[i].op \in {"open", "Usm"} => calls[i].key = NoneVal
                /\ calls[i].op = "stream" => calls[i].mode = "NONE"

\* Numerals: a decimal numeral is a non-empty string of decimal digits, a
\* hexadecimal one is 0x followed by at least one hexadecimal digit.
IsDecNumeral(s) == Len(s) >= 1 /\ AllIn(s, DecDigits)

IsHexNumeral(s) ==
    /\ Len(s) >= 3
    /\ s[1] = "0"
    /\ s[2] = "x"
    /\ AllIn(SubSeq(s, 3, Len(s)), HexDigits)

NumeralValue(s) ==
    IF IsHexNumeral(s) THEN DigitsValue(SubSeq(s, 3, Len(s)), 16)
    ELSE DigitsValue(s, 10)

\* A decimal numeral with a leading zero that does not denote zero.
HasLeadingZero(s) == IsDecNumeral(s) /\ s[1] = "0" /\ NumeralValue(s) # 0

KeyReturned == cmd = "key_normalize" /\ pc = "returned" /\ args.keyopt.given

\* C3 as stated: key_normalize returns the value of every decimal numeral and
\* of every 0x-prefixed hexadecimal numeral.
C3_EveryNumeralItsValue ==
    (KeyReturned /\ (IsDecNumeral(args.keyopt.str) \/ IsHexNumeral(args.keyopt.str)))
        => key = IntVal(NumeralValue(args.keyopt.str))

\* C3 as amended: key_normalize returns the value of every 0x-prefixed
\* hexadecimal numeral and of every decimal numeral that has no leading zero
\* or denotes zero.
C3_NumeralWithoutLeadingZero ==
    (KeyReturned
        /\ (IsDecNumeral(args.keyopt.str) \/ IsHexNumeral(args.keyopt.str))
        /\ ~HasLeadingZero(args.keyopt.str))
        => key = IntVal(NumeralValue(args.keyopt.str))

C3_Witness ==
    /\ KeyReturned
    /\ args.keyopt.str = <<"0", "x", "a">>
    /\ key = IntVal(10)

\* 0 <= v < 2^64, the upper bound taken in two steps of 2^30.
InU64(v) == v >= 0 /\ ((v \div (2 ^ 30)) \div (2 ^ 30)) < 16

\* C4: every key handed to Usm.open, to the Usm constructor or to
\* generate_keys lies in 0..2^64-1.
C4_KeysAre64Bit ==
    \A i \in DOMAIN calls :
        (calls[i].op \in {"open", "Usm", "generate_keys"} /\ calls[i].key.tag = "int")
            => InU64(calls[i].key.val)

\* In extract no container is shared and nothing is done twice: a file has at
\* most one open and one demux, and a demux is on the container its own task
\* opened before, from the same file.
ExtractSharedNothing ==
    cmd = "extract" =>
        /\ Len(tasks) <= Len(usmfiles)
        /\ \A f \in 1..Len(usmfiles) :
            /\ Cardinality(CallsOf("open", f)) <= 1
            /\ Cardinality(CallsOf("demux", f)) <= 1
        /\ \A i \in DOMAIN calls :
            calls[i].op = "demux" =>
                \E j \in 1..(i - 1) :
                    /\ calls[j].op = "open"
                    /\ calls[j].res = "ok"
                    /\ calls[j].usm = calls[i].usm
                    /\ calls[j].by = calls[i].by
                    /\ calls[j].file = calls[i].file
        /\ \A i \in DOMAIN calls :
            calls[i].usm # 0 => usms[calls[i].usm].by = calls[i].by

\* C5: in extract each file found is handled by exactly one task, which opens
\* its own container and then calls demux on it; no container is shared and
\* no file is opened or demuxed twice.
C5_OpenThenDemuxPerFile ==
    /\ ExtractSharedNothing
    /\ cmd = "extract" =>
        \A f \in DOMAIN tasks :
            (tasks[f].pc = "done" /\ Succeeded("open", f))
                => Cardinality(CallsOf("demux", f)) = 1

\* C6: stream(ENCRYPT) is called only on a container with keys installed. In
\* encrypt every stream call is in mode ENCRYPT and follows, for its file, the
\* open of the container and then the installation of both keys derived from
\* the given key; in create the mode is ENCRYPT exactly when the container was
\* given a key, and NONE otherwise.
C6_EncryptOnlyWithKeys ==
    \A i \in DOMAIN calls :
        calls[i].op = "stream" =>
            LET u == calls[i].usm
            IN  IF cmd = "encrypt"
                THEN /\ calls[i].mode = "ENCRYPT"
                     /\ usms[u].video_key = generate_keys(key)[1]
                     /\ usms[u].audio_key = generate_keys(key)[2]
                     /\ usms[u].video_key # NoneVal
                     /\ usms[u].audio_key # NoneVal
                     /\ \E j \in 1..(i - 1) : \E k \in (j + 1)..(i - 1) :
                            /\ calls[j].op = "open"
                            /\ calls[j].res = "ok"
                            /\ calls[j].usm = u
                            /\ calls[j].file = calls[i].file
                            /\ calls[k].op = "set_keys"
                            /\ calls[k].usm = u
                ELSE /\ calls[i].mode \in {"ENCRYPT", "NONE"}
                     /\ calls[i].mode = "ENCRYPT" <=> usms[u].key # NoneVal

C6_Witness ==
    /\ cmd = "encrypt"
    /\ pc = "exit"
    /\ exit = 0
    /\ Cardinality({ i \in DOMAIN calls : calls[i].op = "stream" }) = 2

\* C7: when create is given an output path, the packets are written to that
\* path and to no other file.
C7_WritesToOutput ==
    (cmd = "create" /\ args.outfile.given /\ written # {})
        => written = { args.outfile.file }

\* Once the command has ended, every file after f was processed.
FollowingProcessed(f) ==
    pc = "exit" => \A g \in (f + 1)..Len(usmfiles) : CallsOf("open", g) # {}

\* C8: in probe, ffprobe runs only on the streams of a demux that succeeded on
\* a container whose open succeeded; a failed open or demux is logged, its
\* file is never probed and the remaining files are still processed; a failed
\* ffprobe does not keep the following files from being processed.
C8_ProbeOrderAndIsolation ==
    cmd = "probe" =>
        \A i \in DOMAIN calls :
            /\ calls[i].op = "ffprobe" =>
                \E j \in 1..(i - 1) : \E k \in (j + 1)..(i - 1) :
                    /\ calls[j].op = "open" /\ calls[j].res = "ok"
                    /\ calls[k].op = "demux" /\ calls[k].res = "ok"
                    /\ calls[j].usm = calls[i].usm
                    /\ calls[k].usm = calls[i].usm
                    /\ calls[j].file = calls[i].file
                    /\ calls[k].file = calls[i].file
            /\ (calls[i].op \in {"open", "demux"} /\ calls[i].res # "ok") =>
                /\ [file |-> calls[i].file, at |-> calls[i].op] \in logs
                /\ CallsOf("ffprobe", calls[i].file) = {}
                /\ FollowingProcessed(calls[i].file)
            /\ (calls[i].op = "ffprobe" /\ calls[i].res # "ok") =>
                FollowingProcessed(calls[i].file)

ExtractStarted == cmd = "extract" /\ pc \in {"submit", "as_completed"}

ExtractDone ==
    /\ pc = "exit"
    /\ progress = Len(usmfiles)
    /\ Len(tasks) = Len(usmfiles)
    /\ \A f \in DOMAIN tasks : tasks[f].pc = "done"

\* C9: once extract has found its files and has its executor (workers >= 1),
\* it terminates, whatever open and demux return or raise per file: every
\* task completes, no file is opened or demuxed a second time, and the
\* progress is advanced once per file, never more.
C9_ExtractTerminates ==
    /\ [](cmd = "extract" =>
            /\ progress <= Len(usmfiles)
            /\ \A f \in 1..Len(usmfiles) :
                /\ Cardinality(CallsOf("open", f)) <= 1
                /\ Cardinality(CallsOf("demux", f)) <= 1)
    /\ (ExtractStarted ~> ExtractDone)

C9_Witness ==
    /\ cmd = "extract"
    /\ ExtractDone
    /\ Len(usmfiles) = MaxFiles
    /\ args.workers = MaxWorkers
    /\ Failed("open", 1)
    /\ Failed("demux", 2)

\* C10: in encrypt without an output option, outdir is a directory: the input
\* itself when the input is a directory, the input's parent when it is a
\* file; nothing is written to a path whose parent is the input file.
C10_OutdirIsDirectory ==
    (cmd = "encrypt" /\ ~args.output.given /\ pc \notin {"callback", "outdir"})
        => /\ IsDir(outdir)
           /\ outdir = IF args.inputKind = "dir" THEN InputPath(args)
                       ELSE Parent(InputPath(args))
           /\ \A w \in written : Parent(w) # InputFile

====
